---- MODULE Spec2Model ----
(***************************************************************************)
(* A state-machine model of src/src/train.py: the schedule functions       *)
(* get_bn_momentum and get_lr, and the epoch loop that drives training,    *)
(* validation, metric accumulation, logging and checkpointing.             *)
(*                                                                         *)
(* Numbers.  Python floats are modelled in fixed point:                    *)
(*   - momentum and the two learning-rate coefficients in units of 1/Scale *)
(*     (0.5 is 5000, 0.99 is 9900, 0.0002 is 2, 0.7 is 7000);              *)
(*   - learning rates in units of 1e-8 (the default 1e-3 is 100000).       *)
(* Every operation rounds to the nearest unit, as a float operation rounds *)
(* to the nearest float; a power with a fractional exponent is computed    *)
(* from FracBits binary digits of the exponent by repeated square roots.   *)
(* The float specials the command line can introduce (inf, nan) and the    *)
(* exception a call can raise are separate values (FInf, FNaN,             *)
(* ZeroDivisionError).                                                     *)
(*                                                                         *)
(* Four specifications: Spec is a run of the script; SpecReturning is a    *)
(* run in which every call returns, executed under weak fairness of the    *)
(* script's next statement; SpecBn and SpecLr call get_bn_momentum and     *)
(* get_lr on arguments drawn from bounded sets.                            *)
(***************************************************************************)
EXTENDS Integers, Sequences, FiniteSets, TLC

----------------------------------------------------------------------------
(* Bounds of the model *)

\* largest number of training files (len(TRAIN_FILES))
MaxTrainFiles == 3
\* largest number of validation files (len(VAL_FILES))
MaxValFiles == 2
\* largest --batch_size
MaxBatchSize == 2
\* largest --epochs
MaxEpochs == 3
\* half minutes the wall clock can advance during a run
MaxClock == 2
\* largest step the momentum schedule is probed at
MaxBnStep == 2500
\* width of each window of steps the learning-rate schedule is probed at
MaxLrOffset == 3
\* binary digits of a fractional exponent that Pow takes into account
FracBits == 14

----------------------------------------------------------------------------
(* Fixed-point arithmetic *)

Scale == 10^4

FInf == 2^30
FNaN == -(2^30)
ZeroDivisionError == 2^30 + 1

IsFinite(x) == x # FInf /\ x # FNaN /\ x # ZeroDivisionError

Min(a, b) == IF a <= b THEN a ELSE b

\* n / d rounded to the nearest integer, as a float operation rounds its
\* result to the nearest representable value
RDiv(n, d) == (n + d \div 2) \div d

\* float multiplication a * b of a learning rate a (which may be inf or nan)
\* by a coefficient b in units of 1/Scale
FMul(a, b) ==
    IF a = FNaN \/ b = FNaN THEN FNaN
    ELSE IF a = FInf THEN (IF b = 0 THEN FNaN ELSE FInf)
    ELSE RDiv(a * b, Scale)

\* the value of the one element of a singleton; a value bound this way is
\* computed once, however often it is used
The(S) == CHOOSE v \in S : TRUE

\* floor of the square root of n, by bisection on lo..hi
RECURSIVE ISqrtIn(_, _, _)
ISqrtIn(n, lo, hi) ==
    IF lo >= hi THEN lo
    ELSE The({IF mid * mid <= n THEN ISqrtIn(n, mid, hi) ELSE ISqrtIn(n, lo, mid - 1) :
              mid \in {(lo + hi + 1) \div 2}})

\* square root of a coefficient x in 0..Scale, in units of 1/Scale, rounded
\* to the nearest
FSqrt(x) ==
    LET n == x * Scale
        r == ISqrtIn(n, x, Scale)   \* x <= sqrt(x) <= 1 for 0 <= x <= 1
    IN  IF n - r * r > r THEN r + 1 ELSE r

\* base ** k for an integer k >= 0; x ** 0 is 1 for every x
RECURSIVE IPow(_, _)
IPow(base, k) ==
    IF k = 0 THEN Scale
    ELSE LET half == IPow(base, k \div 2)
             sq   == RDiv(half * half, Scale)
         IN  IF k % 2 = 0 THEN sq ELSE RDiv(sq * base, Scale)

\* base ** (r / den) for 0 <= r < den, from the binary digits of r/den:
\* root is base ** (1/2^i) at digit i
RECURSIVE FracPow(_, _, _, _)
FracPow(root, r, den, bits) ==
    IF bits = 0 \/ r = 0 THEN Scale
    ELSE The({IF r2 >= den
              THEN RDiv(next * FracPow(next, r2 - den, den, bits - 1), Scale)
              ELSE FracPow(next, r2, den, bits - 1) :
              next \in {FSqrt(root)}, r2 \in {2 * r}})

\* base ** (num / den), the float power of a base in 0..Scale by a
\* non-negative exponent
Pow(base, num, den) ==
    RDiv(IPow(base, num \div den) * FracPow(base, num % den, den, FracBits), Scale)

----------------------------------------------------------------------------
(* Schedule functions *)

\* get_bn_momentum without its cap
get_bn_momentum_uncapped(s) == 5000 + 2 * s

\* def get_bn_momentum(step): return min(0.99, 0.5 + 0.0002*step)
get_bn_momentum(s) == Min(9900, 5000 + 2 * s)

\* get_lr with a warm-up that counts from 1: min(1.0, (step + 1)/2000)
get_lr_warmup_from_one(initial_learning_rate, decay_steps, decay_rate, s, staircase, warm_up) ==
    LET coeff1 == IF warm_up THEN Min(Scale, ((s + 1) * Scale) \div 2000) ELSE Scale
    IN  IF decay_steps = 0 THEN ZeroDivisionError
        ELSE LET coeff2 == IF staircase
                           THEN IPow(decay_rate, s \div decay_steps)
                           ELSE Pow(decay_rate, s, decay_steps)
             IN  FMul(FMul(initial_learning_rate, coeff1), coeff2)

\* the warm-up coefficient counting from 1: min(1.0, (step + 1)/2000)
coeff1_from_one(s, warm_up) ==
    IF warm_up THEN Min(Scale, ((s + 1) * Scale) \div 2000) ELSE Scale

\* if warm_up: coeff1 = min(1.0, step/2000) else: coeff1 = 1.0
\* (in units of 1/Scale; step/2000 is a multiple of 1/Scale up to 2000/Scale)
coeff1(s, warm_up) ==
    IF warm_up THEN Min(Scale, (s * Scale) \div 2000) ELSE Scale

\* the decay coefficient with the staircase flag ignored
coeff2_smooth(decay_steps, decay_rate, s, staircase) ==
    Pow(decay_rate, s, decay_steps)

\* if staircase: coeff2 = decay_rate ** (step // decay_steps)
\* else: coeff2 = decay_rate ** (step / decay_steps)
\* (decay_steps # 0)
coeff2(decay_steps, decay_rate, s, staircase) ==
    IF staircase
    THEN IPow(decay_rate, s \div decay_steps)
    ELSE Pow(decay_rate, s, decay_steps)

\* def get_lr(initial_learning_rate, decay_steps, decay_rate, step,
\*            staircase=False, warm_up=True)
\* step/decay_steps and step//decay_steps both raise on decay_steps = 0
get_lr(initial_learning_rate, decay_steps, decay_rate, s, staircase, warm_up) ==
    IF decay_steps = 0 THEN ZeroDivisionError
    ELSE FMul(FMul(initial_learning_rate, coeff1(s, warm_up)),
              coeff2(decay_steps, decay_rate, s, staircase))

----------------------------------------------------------------------------
(* Program constants and settings *)

\* LR_DECAY_STEPS = 7000
LR_DECAY_STEPS == 7000
\* LR_DECAY_RATE = 0.7, in units of 1/Scale
LR_DECAY_RATE == 7 * 10^3
\* PARSER.add_argument('--wandb', action='store_true', default=True): the
\* flag can only store True over a default of True
WANDB == TRUE
\* --learning_rate values of the runs modelled, in units of 1e-8
LearningRates == {0, 10^5}

VARIABLES
    pc,              \* position of the script in the epoch loop
    BATCH_SIZE,      \* ARGS.batch_size
    EPOCHS,          \* ARGS.epochs
    LEARNING_RATE,   \* ARGS.learning_rate
    nTrainFiles,     \* len(TRAIN_FILES)
    nValFiles,       \* len(VAL_FILES)
    now,             \* wall clock (datetime.now), in half minutes since start-up
    INIT_TIMESTAMP,  \* get_timestamp() at start-up
    epoch,           \* the loop variable of "for epoch in range(EPOCHS)"
    step,            \* the global step
    bn_momentum,     \* tf.Variable read by the model's normalisation layers
    lr,              \* tf.Variable read by the optimizer
    weights,         \* model parameters: number of optimizer updates applied
    train_it,        \* batches the train_ds iterator has delivered this epoch
    val_it,          \* batches the val_ds iterator has delivered this epoch
    batch,           \* correct predictions in the logits of the batch in hand
    train_acc, train_prec, train_recall,
    val_acc, val_prec, val_recall,
    files,           \* checkpoint files on disk: path -> saved weights
    saves,           \* history: the save_weights calls that returned, in order, each
                     \* with the training batches run so far and the samples
                     \* trained on and validated on in its epoch
    wandb_log,       \* history: the records handed to wandb.log, in order: kind,
                     \* step key, and the schedule values of a step-level record
    epoch_results,   \* history: the six results of the epoch-level record of the
                     \* epoch just ended; <<>> once the next epoch is under way
    reads,           \* history: what each train_step read (step, lr, momentum)
    epochTrain,      \* history: tally of the training batches of this epoch
    epochVal,        \* history: tally of the validation batches of this epoch
    schedStep,       \* schedule probe: the step argument
    schedArgs,       \* schedule probe: the other arguments of get_lr
    bnPrev, bnCur,   \* schedule probe: <<get_bn_momentum(schedStep - 1)>> and
                     \* <<get_bn_momentum(schedStep)>>, <<>> before the call
    lrPrev, lrCur,   \* schedule probe: <<get_lr(..., schedStep - 1)>> and
                     \* <<get_lr(..., schedStep)>>, <<>> before the call
    lrCoeff1,        \* schedule probe: <<coeff1>> of the call get_lr(..., schedStep)
    lrNoWarmup       \* schedule probe: <<get_lr(..., schedStep)>> called with
                     \* warm_up=False and the other arguments the same

configVars == <<BATCH_SIZE, EPOCHS, LEARNING_RATE, nTrainFiles, nValFiles, INIT_TIMESTAMP>>
schedVars  == <<bn_momentum, lr>>
trainAccs  == <<train_acc, train_prec, train_recall>>
valAccs    == <<val_acc, val_prec, val_recall>>
histVars   == <<saves, wandb_log, epoch_results, reads, epochTrain, epochVal>>
probeVars  == <<schedStep, schedArgs, bnPrev, bnCur, lrPrev, lrCur, lrCoeff1, lrNoWarmup>>
vars == <<pc, configVars, now, epoch, step, schedVars, weights, train_it, val_it,
          batch, trainAccs, valAccs, files, histVars, probeVars>>

\* no batch in hand
Unset == 0 - 1

\* LR_ARGS = {'initial_learning_rate': LEARNING_RATE, 'decay_steps': LR_DECAY_STEPS,
\*            'decay_rate': LR_DECAY_RATE, 'staircase': False, 'warm_up': True}
LrOfStep(s) == get_lr(LEARNING_RATE, LR_DECAY_STEPS, LR_DECAY_RATE, s, FALSE, TRUE)

\* batches per epoch of a dataset batched with the remainder kept
NumBatchesKeepRemainder(nFiles) == (nFiles + BATCH_SIZE - 1) \div BATCH_SIZE

\* batches per epoch of a dataset batched with drop_remainder=True
NumBatches(nFiles) == nFiles \div BATCH_SIZE

\* print('Steps per epoch =', len(TRAIN_FILES) // BATCH_SIZE)
StepsPerEpoch == nTrainFiles \div BATCH_SIZE
\* print('Total steps =', (len(TRAIN_FILES) // BATCH_SIZE) * EPOCHS)
TotalSteps == (nTrainFiles \div BATCH_SIZE) * EPOCHS

\* get_timestamp(): str(datetime.now(timezone.utc))[:16] keeps the date and
\* the time down to the minute and drops the seconds
get_timestamp(t) == t \div 2

\* 'model/checkpoints/' + INIT_TIMESTAMP + '/iter-' + str(step)
CheckpointPath(timestamp, s) == <<timestamp, s>>

\* a freshly constructed or reset metric object
ZeroAcc    == [total |-> 0, count |-> 0]
ZeroPrec   == [tp |-> 0, fp |-> 0]
ZeroRecall == [tp |-> 0, fn |-> 0]
ZeroTally  == [correct |-> 0, seen |-> 0]

\* update_state on a batch of BATCH_SIZE one-hot labels of which k are
\* predicted correctly (argmax of the probabilities equals the label): a
\* correct sample is a match and a true positive, a wrong one is a false
\* positive of the predicted class and a false negative of the true class
AccUpdate(m, k)    == [total |-> m.total + k, count |-> m.count + BATCH_SIZE]
PrecUpdate(m, k)   == [tp |-> m.tp + k, fp |-> m.fp + (BATCH_SIZE - k)]
RecallUpdate(m, k) == [tp |-> m.tp + k, fn |-> m.fn + (BATCH_SIZE - k)]
TallyUpdate(t, k)  == [correct |-> t.correct + k, seen |-> t.seen + BATCH_SIZE]

\* a plain division: 0/0 when nothing was counted
RatioUnguarded(num, den) == <<num, den>>

\* result(): a ratio <<numerator, denominator>>, 0 when nothing was counted
\* (the metrics divide with div_no_nan)
Ratio(num, den)  == IF den = 0 THEN <<0, 1>> ELSE <<num, den>>
AccResult(m)     == Ratio(m.total, m.count)
PrecResult(m)    == Ratio(m.tp, m.tp + m.fp)
RecallResult(m)  == Ratio(m.tp, m.tp + m.fn)

----------------------------------------------------------------------------
(* The run: lines 21-128 *)

Init ==
    /\ pc = "for_epoch"
    /\ BATCH_SIZE \in 1..MaxBatchSize
    /\ EPOCHS \in 0..MaxEpochs
    /\ LEARNING_RATE \in LearningRates
    /\ nTrainFiles \in 1..MaxTrainFiles
    /\ nValFiles \in 1..MaxValFiles
    /\ now = 0
    /\ INIT_TIMESTAMP = get_timestamp(0)
    /\ epoch = 0
    /\ step = 0
    /\ bn_momentum = get_bn_momentum(0)
    /\ lr = LrOfStep(0)
    /\ weights = 0
    /\ train_it = 0
    /\ val_it = 0
    /\ batch = Unset
    /\ train_acc = ZeroAcc /\ train_prec = ZeroPrec /\ train_recall = ZeroRecall
    /\ val_acc = ZeroAcc /\ val_prec = ZeroPrec /\ val_recall = ZeroRecall
    /\ files = {}
    /\ saves = <<>>
    /\ wandb_log = <<>>
    /\ epoch_results = <<>>
    /\ reads = <<>>
    /\ epochTrain = ZeroTally
    /\ epochVal = ZeroTally
    /\ schedStep = 0
    /\ schedArgs = <<>>
    /\ bnPrev = <<>> /\ bnCur = <<>>
    /\ lrPrev = <<>> /\ lrCur = <<>> /\ lrCoeff1 = <<>> /\ lrNoWarmup = <<>>

----------------------------------------------------------------------------
(* The epoch loop: lines 129-188 *)

\* the loop head with an inclusive bound: range(EPOCHS + 1)
ForEpochInclusive ==
    /\ pc = "for_epoch"
    /\ IF epoch <= EPOCHS
       THEN /\ pc' = "reset"
            /\ epochTrain' = ZeroTally
            /\ epochVal' = ZeroTally
            /\ epoch_results' = <<>>
       ELSE /\ pc' = "print_done"
            /\ UNCHANGED <<epochTrain, epochVal, epoch_results>>
    /\ UNCHANGED <<configVars, now, epoch, step, schedVars, weights, train_it, val_it,
                   batch, trainAccs, valAccs, files, saves, wandb_log, reads, probeVars>>

\* for epoch in range(EPOCHS): enter the next epoch, or leave the loop
ForEpoch ==
    /\ pc = "for_epoch"
    /\ IF epoch < EPOCHS
       THEN /\ pc' = "reset"
            /\ epochTrain' = ZeroTally
            /\ epochVal' = ZeroTally
            /\ epoch_results' = <<>>
       ELSE /\ pc' = "print_done"
            /\ UNCHANGED <<epochTrain, epochVal, epoch_results>>
    /\ UNCHANGED <<configVars, now, epoch, step, schedVars, weights, train_it, val_it,
                   batch, trainAccs, valAccs, files, saves, wandb_log, reads, probeVars>>

\* the reset block without the three validation resets
ResetMetricsTrainOnly ==
    /\ pc = "reset"
    /\ train_acc' = ZeroAcc
    /\ train_prec' = ZeroPrec
    /\ train_recall' = ZeroRecall
    /\ train_it' = 0
    /\ pc' = "train_next"
    /\ UNCHANGED <<configVars, now, epoch, step, schedVars, weights, val_it,
                   batch, valAccs, files, histVars, probeVars>>

\* the six reset_states() calls
ResetMetrics ==
    /\ pc = "reset"
    /\ train_acc' = ZeroAcc
    /\ train_prec' = ZeroPrec
    /\ train_recall' = ZeroRecall
    /\ val_acc' = ZeroAcc
    /\ val_prec' = ZeroPrec
    /\ val_recall' = ZeroRecall
    /\ train_it' = 0
    /\ pc' = "train_next"
    /\ UNCHANGED <<configVars, now, epoch, step, schedVars, weights, val_it,
                   batch, files, histVars, probeVars>>

\* for x_train, y_train in train_ds: pull the next batch, or leave the loop
TrainNext ==
    /\ pc = "train_next"
    /\ IF train_it < NumBatches(nTrainFiles)
       THEN /\ train_it' = train_it + 1
            /\ pc' = "train_step"
            /\ UNCHANGED val_it
       ELSE /\ val_it' = 0
            /\ pc' = "val_next"
            /\ UNCHANGED train_it
    /\ UNCHANGED <<configVars, now, epoch, step, schedVars, weights,
                   batch, trainAccs, valAccs, files, histVars, probeVars>>

\* train_step(x_train, y_train): the forward pass reads bn_momentum, the
\* optimizer reads lr and updates the weights; the logits come back
TrainStep ==
    /\ pc = "train_step"
    /\ \E k \in 0..BATCH_SIZE : batch' = k
    /\ weights' = weights + 1
    /\ reads' = Append(reads, [step |-> step, lr |-> lr, bn |-> bn_momentum])
    /\ pc' = "train_metrics"
    /\ UNCHANGED <<configVars, now, epoch, step, schedVars, train_it, val_it,
                   trainAccs, valAccs, files, saves, wandb_log, epoch_results, epochTrain, epochVal,
                   probeVars>>

\* train_acc / train_prec / train_recall .update_state
TrainMetrics ==
    /\ pc = "train_metrics"
    /\ train_acc' = AccUpdate(train_acc, batch)
    /\ train_prec' = PrecUpdate(train_prec, batch)
    /\ train_recall' = RecallUpdate(train_recall, batch)
    /\ epochTrain' = TallyUpdate(epochTrain, batch)
    /\ batch' = Unset
    /\ pc' = "step_log"
    /\ UNCHANGED <<configVars, now, epoch, step, schedVars, weights, train_it, val_it,
                   valAccs, files, saves, wandb_log, epoch_results, reads, epochVal, probeVars>>

\* the step-level record logged after step += 1
StepLogAfterIncrement ==
    /\ pc = "step_log"
    /\ wandb_log' = IF WANDB
                    THEN Append(wandb_log,
                                [kind |-> "step", key |-> step + 1, data |-> <<lr, bn_momentum>>])
                    ELSE wandb_log
    /\ pc' = "step_inc"
    /\ UNCHANGED <<configVars, now, epoch, step, schedVars, weights, train_it, val_it,
                   batch, trainAccs, valAccs, files, saves, epoch_results, reads,
                   epochTrain, epochVal, probeVars>>

\* if WANDB: wandb.log({... 'learning_rate': lr.numpy(), ...
\*                      'bn_momentum': bn_momentum.numpy()}, step=step)
StepLog ==
    /\ pc = "step_log"
    /\ wandb_log' = IF WANDB
                    THEN Append(wandb_log,
                                [kind |-> "step", key |-> step, data |-> <<lr, bn_momentum>>])
                    ELSE wandb_log
    /\ pc' = "step_inc"
    /\ UNCHANGED <<configVars, now, epoch, step, schedVars, weights, train_it, val_it,
                   batch, trainAccs, valAccs, files, saves, epoch_results, reads,
                   epochTrain, epochVal, probeVars>>

\* a step counter that counts samples: step += BATCH_SIZE
StepIncBySamples ==
    /\ pc = "step_inc"
    /\ step' = step + BATCH_SIZE
    /\ pc' = "bn_assign"
    /\ UNCHANGED <<configVars, now, epoch, schedVars, weights, train_it, val_it,
                   batch, trainAccs, valAccs, files, histVars, probeVars>>

\* step += 1
StepInc ==
    /\ pc = "step_inc"
    /\ step' = step + 1
    /\ pc' = "bn_assign"
    /\ UNCHANGED <<configVars, now, epoch, schedVars, weights, train_it, val_it,
                   batch, trainAccs, valAccs, files, histVars, probeVars>>

\* the assignment made from the step before its increment
AssignBnMomentumStale ==
    /\ pc = "bn_assign"
    /\ bn_momentum' = get_bn_momentum(step - 1)
    /\ pc' = "lr_assign"
    /\ UNCHANGED <<configVars, now, epoch, step, lr, weights, train_it, val_it,
                   batch, trainAccs, valAccs, files, histVars, probeVars>>

\* bn_momentum.assign(get_bn_momentum(step))
AssignBnMomentum ==
    /\ pc = "bn_assign"
    /\ bn_momentum' = get_bn_momentum(step)
    /\ pc' = "lr_assign"
    /\ UNCHANGED <<configVars, now, epoch, step, lr, weights, train_it, val_it,
                   batch, trainAccs, valAccs, files, histVars, probeVars>>

\* the learning rate assigned for the step before the increment
AssignLrStale ==
    /\ pc = "lr_assign"
    /\ lr' = LrOfStep(step - 1)
    /\ pc' = "train_next"
    /\ UNCHANGED <<configVars, now, epoch, step, bn_momentum, weights, train_it, val_it,
                   batch, trainAccs, valAccs, files, histVars, probeVars>>

\* lr.assign(get_lr(**LR_ARGS, step=step))
AssignLr ==
    /\ pc = "lr_assign"
    /\ lr' = LrOfStep(step)
    /\ pc' = "train_next"
    /\ UNCHANGED <<configVars, now, epoch, step, bn_momentum, weights, train_it, val_it,
                   batch, trainAccs, valAccs, files, histVars, probeVars>>

\* for x_val, y_val in val_ds: pull the next batch, or leave the loop
ValNext ==
    /\ pc = "val_next"
    /\ IF val_it < NumBatches(nValFiles)
       THEN /\ val_it' = val_it + 1
            /\ pc' = "val_step"
       ELSE /\ pc' = "save"
            /\ UNCHANGED val_it
    /\ UNCHANGED <<configVars, now, epoch, step, schedVars, weights, train_it,
                   batch, trainAccs, valAccs, files, histVars, probeVars>>

\* a validation step that runs the training step's update
ValStepTrains ==
    /\ pc = "val_step"
    /\ \E k \in 0..BATCH_SIZE : batch' = k
    /\ weights' = weights + 1
    /\ pc' = "val_metrics"
    /\ UNCHANGED <<configVars, now, epoch, step, schedVars, train_it, val_it,
                   trainAccs, valAccs, files, histVars, probeVars>>

\* val_step(x_val): forward pass only
ValStep ==
    /\ pc = "val_step"
    /\ \E k \in 0..BATCH_SIZE : batch' = k
    /\ pc' = "val_metrics"
    /\ UNCHANGED <<configVars, now, epoch, step, schedVars, weights, train_it, val_it,
                   trainAccs, valAccs, files, histVars, probeVars>>

\* the validation loop's body with the training loop's tail left in: the
\* step is incremented and the schedules are assigned
ValMetricsAdvancesStep ==
    /\ pc = "val_metrics"
    /\ val_acc' = AccUpdate(val_acc, batch)
    /\ val_prec' = PrecUpdate(val_prec, batch)
    /\ val_recall' = RecallUpdate(val_recall, batch)
    /\ epochVal' = TallyUpdate(epochVal, batch)
    /\ batch' = Unset
    /\ step' = step + 1
    /\ bn_momentum' = get_bn_momentum(step + 1)
    /\ lr' = LrOfStep(step + 1)
    /\ pc' = "val_next"
    /\ UNCHANGED <<configVars, now, epoch, weights, train_it, val_it,
                   trainAccs, files, saves, wandb_log, epoch_results, reads, epochTrain, probeVars>>

\* the validation loop's body updating the training metric objects
ValMetricsIntoTrain ==
    /\ pc = "val_metrics"
    /\ train_acc' = AccUpdate(train_acc, batch)
    /\ train_prec' = PrecUpdate(train_prec, batch)
    /\ train_recall' = RecallUpdate(train_recall, batch)
    /\ epochVal' = TallyUpdate(epochVal, batch)
    /\ batch' = Unset
    /\ pc' = "val_next"
    /\ UNCHANGED <<configVars, now, epoch, step, schedVars, weights, train_it, val_it,
                   valAccs, files, saves, wandb_log, epoch_results, reads, epochTrain, probeVars>>

\* val_acc / val_prec / val_recall .update_state
ValMetrics ==
    /\ pc = "val_metrics"
    /\ val_acc' = AccUpdate(val_acc, batch)
    /\ val_prec' = PrecUpdate(val_prec, batch)
    /\ val_recall' = RecallUpdate(val_recall, batch)
    /\ epochVal' = TallyUpdate(epochVal, batch)
    /\ batch' = Unset
    /\ pc' = "val_next"
    /\ UNCHANGED <<configVars, now, epoch, step, schedVars, weights, train_it, val_it,
                   trainAccs, files, saves, wandb_log, epoch_results, reads, epochTrain, probeVars>>

\* the path built from a timestamp taken at the save
SavePathTimestampNow == CheckpointPath(get_timestamp(now), step)

\* the path built from the batch count of the epoch
SavePathEpochBatches == CheckpointPath(INIT_TIMESTAMP, train_it)

\* the path of this epoch's checkpoint
SavePath == CheckpointPath(INIT_TIMESTAMP, step)

\* model.save_weights('model/checkpoints/' + INIT_TIMESTAMP + '/iter-' + str(step))
\* returns: the write replaces whatever the path held
SaveWeightsReturns ==
    /\ pc = "save"
    /\ files' = {f \in files : f.path # SavePath}
                     \cup {[path |-> SavePath, weights |-> weights]}
    /\ saves' = Append(saves, [path |-> SavePath, epoch |-> epoch,
                               weights |-> weights,
                               replaced |-> \E f \in files : f.path = SavePath,
                               trained |-> Len(reads),
                               trainedInEpoch |-> epochTrain.seen,
                               validatedInEpoch |-> epochVal.seen])
    /\ pc' = "epoch_log"
    /\ UNCHANGED <<configVars, now, epoch, step, schedVars, weights, train_it, val_it,
                   batch, trainAccs, valAccs, wandb_log, epoch_results, reads, epochTrain, epochVal,
                   probeVars>>

\* a failed write with the exception swallowed
SaveWeightsRaisesCaught ==
    /\ pc = "save"
    /\ pc' = "epoch_log"
    /\ UNCHANGED <<configVars, now, epoch, step, schedVars, weights, train_it, val_it,
                   batch, trainAccs, valAccs, files, histVars, probeVars>>

\* model.save_weights(...) raises: nothing catches it, the script ends
SaveWeightsRaises ==
    /\ pc = "save"
    /\ pc' = "crashed"
    /\ UNCHANGED <<configVars, now, epoch, step, schedVars, weights, train_it, val_it,
                   batch, trainAccs, valAccs, files, histVars, probeVars>>

\* the call model.save_weights(...) of the epoch
SaveWeights ==
    \/ SaveWeightsReturns
    \/ SaveWeightsRaises

\* the epoch-level record keyed by the epoch number: step=epoch
EpochLogKeyedByEpoch ==
    /\ pc = "epoch_log"
    /\ IF WANDB
       THEN /\ wandb_log' = Append(wandb_log, [kind |-> "epoch", key |-> epoch, data |-> <<>>])
            /\ epoch_results' = <<AccResult(train_acc), PrecResult(train_prec),
                                  RecallResult(train_recall), AccResult(val_acc),
                                  PrecResult(val_prec), RecallResult(val_recall)>>
       ELSE UNCHANGED <<wandb_log, epoch_results>>
    /\ epoch' = epoch + 1
    /\ pc' = "for_epoch"
    /\ UNCHANGED <<configVars, now, step, schedVars, weights, train_it, val_it,
                   batch, trainAccs, valAccs, files, saves, reads, epochTrain, epochVal,
                   probeVars>>

\* if WANDB: wandb.log({'train_accuracy': train_acc.result().numpy(), ...}, step=step)
\* and back to the head of the epoch loop
EpochLog ==
    /\ pc = "epoch_log"
    /\ IF WANDB
       THEN /\ wandb_log' = Append(wandb_log, [kind |-> "epoch", key |-> step, data |-> <<>>])
            /\ epoch_results' = <<AccResult(train_acc), PrecResult(train_prec),
                                  RecallResult(train_recall), AccResult(val_acc),
                                  PrecResult(val_prec), RecallResult(val_recall)>>
       ELSE UNCHANGED <<wandb_log, epoch_results>>
    /\ epoch' = epoch + 1
    /\ pc' = "for_epoch"
    /\ UNCHANGED <<configVars, now, step, schedVars, weights, train_it, val_it,
                   batch, trainAccs, valAccs, files, saves, reads, epochTrain, epochVal,
                   probeVars>>

\* print('Done training!')
PrintDone ==
    /\ pc = "print_done"
    /\ pc' = "done"
    /\ UNCHANGED <<configVars, now, epoch, step, schedVars, weights, train_it, val_it,
                   batch, trainAccs, valAccs, files, histVars, probeVars>>

\* the wall clock advances while the script runs
Tick ==
    /\ pc \notin {"done", "crashed"}
    /\ now < MaxClock
    /\ now' = now + 1
    /\ UNCHANGED <<pc, configVars, epoch, step, schedVars, weights, train_it, val_it,
                   batch, trainAccs, valAccs, files, histVars, probeVars>>

Next ==
    \/ ForEpoch
    \/ ResetMetrics
    \/ TrainNext
    \/ TrainStep
    \/ TrainMetrics
    \/ StepLog
    \/ StepInc
    \/ AssignBnMomentum
    \/ AssignLr
    \/ ValNext
    \/ ValStep
    \/ ValMetrics
    \/ SaveWeights
    \/ EpochLog
    \/ PrintDone
    \/ Tick

Spec == Init /\ [][Next]_vars

\* a statement of the script when every call it makes returns
Statement ==
    \/ ForEpoch
    \/ ResetMetrics
    \/ TrainNext
    \/ TrainStep
    \/ TrainMetrics
    \/ StepLog
    \/ StepInc
    \/ AssignBnMomentum
    \/ AssignLr
    \/ ValNext
    \/ ValStep
    \/ ValMetrics
    \/ SaveWeightsReturns
    \/ EpochLog
    \/ PrintDone

\* the script run by an interpreter that always executes the next statement,
\* every dataset finite and no call raising; the clock, which the script does
\* not read after it took INIT_TIMESTAMP, stands still
SpecReturning == Init /\ [][Statement]_vars /\ WF_vars(Statement)

----------------------------------------------------------------------------
(* The schedule functions on their own: calls of get_bn_momentum and get_lr *)
(* with arguments drawn from bounded sets, the script not running          *)

NoRun ==
    /\ pc = "no_run"
    /\ BATCH_SIZE = 1 /\ EPOCHS = 0 /\ LEARNING_RATE = 0
    /\ nTrainFiles = 1 /\ nValFiles = 1
    /\ now = 0 /\ INIT_TIMESTAMP = get_timestamp(0)
    /\ epoch = 0 /\ step = 0
    /\ bn_momentum = get_bn_momentum(0) /\ lr = LrOfStep(0)
    /\ weights = 0 /\ train_it = 0 /\ val_it = 0 /\ batch = Unset
    /\ train_acc = ZeroAcc /\ train_prec = ZeroPrec /\ train_recall = ZeroRecall
    /\ val_acc = ZeroAcc /\ val_prec = ZeroPrec /\ val_recall = ZeroRecall
    /\ files = {} /\ saves = <<>> /\ wandb_log = <<>> /\ epoch_results = <<>> /\ reads = <<>>
    /\ epochTrain = ZeroTally /\ epochVal = ZeroTally

runVars == <<pc, configVars, now, epoch, step, schedVars, weights, train_it, val_it,
             batch, trainAccs, valAccs, files, histVars>>

InitBn ==
    /\ NoRun
    /\ schedStep \in 0..MaxBnStep
    /\ schedArgs = <<>>
    /\ bnPrev = <<>> /\ bnCur = <<>>
    /\ lrPrev = <<>> /\ lrCur = <<>> /\ lrCoeff1 = <<>> /\ lrNoWarmup = <<>>

\* a call get_bn_momentum(schedStep)
CallBnMomentum ==
    /\ bnCur = <<>>
    /\ bnCur' = <<get_bn_momentum(schedStep)>>
    /\ UNCHANGED <<runVars, schedStep, schedArgs, bnPrev, lrPrev, lrCur, lrCoeff1, lrNoWarmup>>

\* on to the next step
NextBnStep ==
    /\ bnCur # <<>>
    /\ schedStep < MaxBnStep
    /\ schedStep' = schedStep + 1
    /\ bnPrev' = bnCur
    /\ bnCur' = <<>>
    /\ UNCHANGED <<runVars, schedArgs, lrPrev, lrCur, lrCoeff1, lrNoWarmup>>

NextBn ==
    \/ CallBnMomentum
    \/ NextBnStep

SpecBn == InitBn /\ [][NextBn]_vars

\* the steps get_lr is called at: windows at 0, around the end of the warm-up
\* and around one and two decay periods of the program's settings
LrSteps ==
    {a + k : a \in {0, 2000 - 1, LR_DECAY_STEPS - 1, 2 * LR_DECAY_STEPS - 1},
             k \in 0..MaxLrOffset}

\* the other arguments: learning rates in units of 1e-8, decay rates in units
\* of 1/Scale
LrArgs ==
    [initial_learning_rate : {0, 10^5, -(10^5), FInf, FNaN},
     decay_steps : {0, 1, 3, LR_DECAY_STEPS},
     decay_rate : {0, LR_DECAY_RATE, Scale},
     staircase : BOOLEAN,
     warm_up : BOOLEAN]

InitLr ==
    /\ NoRun
    /\ schedStep \in LrSteps
    /\ schedArgs \in LrArgs
    /\ bnPrev = <<>> /\ bnCur = <<>>
    /\ lrPrev = <<>> /\ lrCur = <<>> /\ lrCoeff1 = <<>> /\ lrNoWarmup = <<>>

\* a call get_lr(**schedArgs, step=schedStep); coeff1 is assigned before the
\* division by decay_steps can raise
CallGetLr ==
    /\ lrCur = <<>>
    /\ lrCur' = <<get_lr(schedArgs.initial_learning_rate, schedArgs.decay_steps,
                         schedArgs.decay_rate, schedStep, schedArgs.staircase,
                         schedArgs.warm_up)>>
    /\ lrCoeff1' = <<coeff1(schedStep, schedArgs.warm_up)>>
    /\ UNCHANGED <<runVars, schedStep, schedArgs, bnPrev, bnCur, lrPrev, lrNoWarmup>>

\* the same call with warm_up=False
CallGetLrNoWarmup ==
    /\ lrNoWarmup = <<>>
    /\ lrNoWarmup' = <<get_lr(schedArgs.initial_learning_rate, schedArgs.decay_steps,
                              schedArgs.decay_rate, schedStep, schedArgs.staircase,
                              FALSE)>>
    /\ UNCHANGED <<runVars, schedStep, schedArgs, bnPrev, bnCur, lrPrev, lrCur, lrCoeff1>>

\* on to the next step with the same arguments
NextLrStep ==
    /\ lrCur # <<>>
    /\ schedStep + 1 \in LrSteps
    /\ schedStep' = schedStep + 1
    /\ lrPrev' = lrCur
    /\ lrCur' = <<>> /\ lrCoeff1' = <<>> /\ lrNoWarmup' = <<>>
    /\ UNCHANGED <<runVars, schedArgs, bnPrev, bnCur>>

NextLr ==
    \/ CallGetLr
    \/ CallGetLrNoWarmup
    \/ NextLrStep

SpecLr == InitLr /\ [][NextLr]_vars

----------------------------------------------------------------------------
(* Claims *)

TrainingPcs == {"train_step", "train_metrics", "step_log", "step_inc", "bn_assign",
                "lr_assign"}
ValidationPcs == {"val_next", "val_step", "val_metrics"}

\* C1: the global step starts at 0, goes up by exactly 1 when a training
\* batch's "step += 1" runs and is changed by nothing else; it counts the
\* training batches processed, and at the end of the training and validation
\* phases of epoch e, with N training batches per epoch, it is (e + 1) * N.
C1_GlobalStep ==
    /\ step = 0
    /\ [][IF pc = "step_inc" /\ pc' = "bn_assign"
          THEN step' = step + 1
          ELSE step' = step]_vars
    /\ [](step = Len(reads) - (IF pc \in {"train_metrics", "step_log", "step_inc"}
                               THEN 1 ELSE 0))
    /\ [](pc = "save" => step = (epoch + 1) * NumBatches(nTrainFiles))

\* C1 witness: the second epoch of a run with two batches per epoch has ended
C1_Witness ==
    /\ pc = "save"
    /\ epoch = 1
    /\ NumBatches(nTrainFiles) = 2
    /\ step = 4

\* C2: when train_step is about to run, and in what it has read when it
\* returns, the momentum variable is get_bn_momentum(s) and the learning-rate
\* variable is get_lr(**LR_ARGS, step=s) for the global step s of that batch
\* (the i-th batch of the run being read at global step i - 1).
C2_SchedulesFresh ==
    /\ pc = "train_step" =>
          /\ bn_momentum = get_bn_momentum(step)
          /\ lr = LrOfStep(step)
    /\ \A i \in DOMAIN reads : reads[i].step = i - 1
    /\ pc = "train_metrics" =>
          LET last == reads[Len(reads)]
          IN  /\ last.bn = get_bn_momentum(last.step)
              /\ last.lr = LrOfStep(last.step)

\* C2 witness: the first batch of a later epoch is about to be trained on,
\* with schedules that have moved since the start
C2_Witness ==
    /\ pc = "train_step"
    /\ epoch = 1
    /\ train_it = 1
    /\ step > 0
    /\ lr > 0
    /\ bn_momentum > get_bn_momentum(0)

\* C3: no step taken in the validation phase changes the global step, the
\* learning rate or the momentum.
C3_ValidationFrame ==
    [][(pc \in ValidationPcs) => UNCHANGED <<step, lr, bn_momentum>>]_vars

\* C3 witness: a validation phase of two batches has ended after training
C3_Witness ==
    /\ pc = "save"
    /\ val_it = 2
    /\ epochVal.seen = 2 * BATCH_SIZE
    /\ step > 0

\* C4: one save_weights call has returned for every epoch that reached its
\* end; the i-th was made in epoch i-1 after all of that epoch's training and
\* validation batches and before any batch of the next epoch, to the path of
\* the start-up timestamp and the number of training batches run so far.
C4_OneCheckpointPerEpoch ==
    /\ Len(saves) = (IF pc = "epoch_log" THEN epoch + 1 ELSE epoch)
    /\ \A i \in DOMAIN saves :
          /\ saves[i].epoch = i - 1
          /\ saves[i].path = CheckpointPath(get_timestamp(0), saves[i].trained)
          /\ saves[i].trained = i * NumBatches(nTrainFiles)
          /\ saves[i].trainedInEpoch = NumBatches(nTrainFiles) * BATCH_SIZE
          /\ saves[i].validatedInEpoch = NumBatches(nValFiles) * BATCH_SIZE

\* C4 witness: two checkpoints written, the second after the clock's minute
\* has changed and after training batches
C4_Witness ==
    /\ Len(saves) = 2
    /\ get_timestamp(now) # INIT_TIMESTAMP
    /\ saves[2].trained > 0
    /\ saves[2].validatedInEpoch > 0

PathsDistinct ==
    \A i, j \in DOMAIN saves : i < j => saves[i].path # saves[j].path

\* C5 as stated: the paths of the checkpoints of a run are pairwise distinct,
\* for every number of training batches per epoch, zero included.
C5_Original == PathsDistinct

\* C5 amended: when an epoch has at least one training batch, the paths of the
\* checkpoints of a run are pairwise distinct, no save replaces a file, and
\* every checkpoint written is still on disk.
C5_NewArtifactPerEpoch ==
    NumBatches(nTrainFiles) > 0 =>
        /\ PathsDistinct
        /\ \A i \in DOMAIN saves : ~saves[i].replaced
        /\ Cardinality(files) = Len(saves)
        /\ \A i \in DOMAIN saves :
              [path |-> saves[i].path, weights |-> saves[i].weights] \in files

\* C5 witness: two checkpoints written in a run whose epochs have batches
C5_Witness ==
    /\ Len(saves) = 2
    /\ NumBatches(nTrainFiles) > 0

\* the six metric objects hold exactly the counts of a tally
AccsAre(tTrain, tVal) ==
    /\ train_acc = [total |-> tTrain.correct, count |-> tTrain.seen]
    /\ train_prec = [tp |-> tTrain.correct, fp |-> tTrain.seen - tTrain.correct]
    /\ train_recall = [tp |-> tTrain.correct, fn |-> tTrain.seen - tTrain.correct]
    /\ val_acc = [total |-> tVal.correct, count |-> tVal.seen]
    /\ val_prec = [tp |-> tVal.correct, fp |-> tVal.seen - tVal.correct]
    /\ val_recall = [tp |-> tVal.correct, fn |-> tVal.seen - tVal.correct]

\* the six results of a tally
ResultsOf(tTrain, tVal) ==
    LET r(t) == Ratio(t.correct, t.seen)
    IN  <<r(tTrain), r(tTrain), r(tTrain), r(tVal), r(tVal), r(tVal)>>

\* C6: from the reset at the start of an epoch on, the six metric objects hold
\* the counts of the batches of this epoch alone, and the epoch's log record
\* carries the results of exactly those counts.
C6_MetricsPerEpoch ==
    /\ pc \in TrainingPcs \cup ValidationPcs \cup {"train_next", "save", "epoch_log", "crashed"}
          => AccsAre(epochTrain, epochVal)
    /\ pc = "for_epoch" /\ epoch > 0 /\ WANDB =>
          /\ wandb_log[Len(wandb_log)] = [kind |-> "epoch", key |-> step, data |-> <<>>]
          /\ epoch_results = ResultsOf(epochTrain, epochVal)

\* C6 witness: the second epoch is about to log its results, having counted
\* correct and wrong predictions in both splits after the first epoch did
C6_Witness ==
    /\ pc = "epoch_log"
    /\ epoch = 1
    /\ epochTrain.correct > 0 /\ epochTrain.correct < epochTrain.seen
    /\ epochVal.correct > 0 /\ epochVal.correct < epochVal.seen

\* C7: processing a validation batch leaves the three training metric objects
\* unchanged, and processing a training batch leaves the three validation
\* metric objects unchanged.
C7_SplitsIndependent ==
    [][/\ pc \in {"val_step", "val_metrics"} => UNCHANGED trainAccs
       /\ pc \in TrainingPcs => UNCHANGED valAccs]_vars

\* C7 witness: a validation batch has been counted while the training metric
\* objects hold counts, in an epoch after one that counted validation batches
C7_Witness ==
    /\ pc = "val_next"
    /\ epoch = 1
    /\ val_acc.count > 0
    /\ train_acc.count > 0

\* C8: only train_step changes the model parameters; the parameters are the
\* result of exactly the train_step calls made, and each checkpoint holds them.
C8_OnlyTrainStepWrites ==
    /\ [][pc # "train_step" => weights' = weights]_vars
    /\ [](weights = Len(reads))
    /\ [](\A i \in DOMAIN saves : saves[i].weights = saves[i].trained)

\* C8 witness: training, validation and a checkpoint save have all run
C8_Witness ==
    /\ pc = "epoch_log"
    /\ weights > 0
    /\ epochVal.seen > 0
    /\ Len(saves) = 2

\* C9: get_bn_momentum(step) is 0.5 + 0.0002*step below step 2450 and 0.99 from
\* step 2450 on, so it is min(0.99, 0.5 + 0.0002*step); it never exceeds 0.99,
\* is 0.5 at step 0 and is not smaller than at the step before.
C9_Momentum ==
    bnCur # <<>> =>
        /\ schedStep < 2450 => bnCur[1] = 5000 + 2 * schedStep
        /\ schedStep >= 2450 => bnCur[1] = 9900
        /\ bnCur[1] <= 9900
        /\ schedStep = 0 => bnCur[1] = 5000
        /\ bnPrev # <<>> => bnPrev[1] <= bnCur[1]

\* C9 witness: the function called at a step past 2450 and at the step before
C9_Witness ==
    /\ bnCur # <<>>
    /\ bnPrev # <<>>
    /\ schedStep > 2450

\* C10 as stated: with warm-up, get_lr at step 0 returns 0.0 for every initial
\* learning rate, decay_steps, decay_rate and staircase setting.
C10_Original ==
    lrCur # <<>> /\ schedStep = 0 /\ schedArgs.warm_up => lrCur[1] = 0

\* C10 amended: with warm-up, get_lr at step 0 returns 0.0 for every finite
\* initial learning rate, every decay_steps other than 0, and every decay_rate
\* and staircase setting.
C10_WarmupZero ==
    /\ lrCur # <<>>
    /\ schedStep = 0
    /\ schedArgs.warm_up
    /\ schedArgs.decay_steps # 0
    /\ IsFinite(schedArgs.initial_learning_rate)
    => lrCur[1] = 0

\* C10 witness: such a call of get_lr at step 0 has returned
C10_Witness ==
    /\ lrCur # <<>>
    /\ schedStep = 0
    /\ schedArgs.warm_up
    /\ schedArgs.staircase
    /\ schedArgs.decay_steps = 3
    /\ schedArgs.decay_rate = 0
    /\ schedArgs.initial_learning_rate = 10^5

\* With C10, in the run: the learning rate every train_step at global step 0
\* reads is 0 (the run's learning rates are finite, its decay_steps is 7000).
FirstUpdateLearningRate ==
    \A i \in DOMAIN reads : reads[i].step = 0 => reads[i].lr = 0

\* C11: in a call of get_lr with warm-up enabled the warm-up coefficient is
\* exactly 1.0 at every step >= 2000, and the call gives what the same call
\* with warm_up=False gives (the same value, or the same error); at every
\* step < 2000 the coefficient is step/2000
C11_WarmupEnds ==
    (lrCur # <<>> /\ lrNoWarmup # <<>> /\ schedArgs.warm_up)
    => /\ schedStep >= 2000 => lrCoeff1[1] = Scale /\ lrCur = lrNoWarmup
       /\ schedStep < 2000 => lrCoeff1[1] * 2000 = schedStep * Scale

\* both calls made at step 2000 under the program's settings, with a
\* learning rate that is neither 0 nor the initial one
C11_Witness ==
    /\ lrCur # <<>> /\ lrNoWarmup # <<>>
    /\ schedArgs.warm_up /\ ~schedArgs.staircase
    /\ schedStep = 2000
    /\ schedArgs.initial_learning_rate = 10^5
    /\ schedArgs.decay_steps = LR_DECAY_STEPS
    /\ schedArgs.decay_rate = LR_DECAY_RATE
    /\ lrCur[1] > 0 /\ lrCur[1] < 10^5
    /\ lrCur = lrNoWarmup

\* C12 as stated: with staircase=True, get_lr gives the same value at two
\* consecutive steps of one interval [k*D, (k+1)*D), whatever warm_up is
C12_Original ==
    (/\ lrPrev # <<>> /\ lrCur # <<>>
     /\ schedArgs.staircase
     /\ schedArgs.decay_steps # 0
     /\ (schedStep - 1) \div schedArgs.decay_steps = schedStep \div schedArgs.decay_steps)
    => lrCur = lrPrev

\* C12: with staircase=True, get_lr gives the same value at two consecutive
\* steps of one interval [k*D, (k+1)*D) when warm_up is False, or when both
\* steps are at or past the end of the warm-up (step >= 2000)
C12_StaircaseConstant ==
    (/\ lrPrev # <<>> /\ lrCur # <<>>
     /\ schedArgs.staircase
     /\ schedArgs.decay_steps # 0
     /\ (schedStep - 1) \div schedArgs.decay_steps = schedStep \div schedArgs.decay_steps
     /\ (~schedArgs.warm_up \/ schedStep - 1 >= 2000))
    => lrCur = lrPrev

\* two calls at consecutive steps of the second interval of the program's
\* decay period, without warm-up, giving the initial learning rate decayed once
C12_Witness ==
    /\ lrPrev # <<>> /\ lrCur # <<>>
    /\ schedArgs.staircase /\ ~schedArgs.warm_up
    /\ schedArgs.decay_steps = LR_DECAY_STEPS
    /\ schedArgs.decay_rate = LR_DECAY_RATE
    /\ schedArgs.initial_learning_rate = 10^5
    /\ schedStep = LR_DECAY_STEPS + 1
    /\ lrCur = lrPrev /\ lrCur[1] = 7 * 10^4

\* C13: when the batch size exceeds the number of training files, the training
\* split has no batch and the training phase of every epoch does nothing: no
\* training step runs, no step-level record is logged, the global step, the
\* learning rate, the momentum, the weights and the training accumulators
\* never change, and the training phase writes no checkpoint
C13_EmptyTrainingPhase ==
    /\ [](BATCH_SIZE > nTrainFiles
          => /\ pc \notin TrainingPcs
             /\ reads = <<>>
             /\ step = 0
             /\ \A i \in DOMAIN wandb_log : wandb_log[i].kind # "step"
             /\ \A i \in DOMAIN saves : saves[i].trained = 0 /\ saves[i].trainedInEpoch = 0)
    /\ [][BATCH_SIZE > nTrainFiles
          => UNCHANGED <<step, lr, bn_momentum, weights, train_acc, train_prec,
                         train_recall>>]_vars
    /\ [][(BATCH_SIZE > nTrainFiles /\ pc \in {"reset", "train_next"})
          => UNCHANGED <<files, saves>>]_vars

\* the training phase of the second epoch of such a run is over: the script
\* is at the validation loop, one checkpoint written, nothing trained
C13_Witness ==
    /\ BATCH_SIZE > nTrainFiles
    /\ epoch = 1
    /\ pc = "val_next"
    /\ Len(saves) = 1
    /\ step = 0 /\ weights = 0

\* C14: when no call raises, the run ends: it reaches the completion report,
\* having entered the epochs 0 .. EPOCHS-1 one after the other, each once,
\* with one checkpoint and one epoch-level record each; after the completion
\* report nothing happens any more
C14_Terminates ==
    /\ <>(pc = "done")
    /\ [](pc \in {"print_done", "done"}
          => /\ epoch = EPOCHS
             /\ Len(saves) = EPOCHS
             /\ \A i \in DOMAIN saves : saves[i].epoch = i - 1
             /\ Cardinality({i \in DOMAIN wandb_log : wandb_log[i].kind = "epoch"}) = EPOCHS)
    /\ [][epoch' = epoch \/ (epoch' = epoch + 1 /\ epoch < EPOCHS)]_vars
    /\ [][pc = "for_epoch" /\ pc' = "print_done" => epoch = EPOCHS]_vars
    /\ [][pc # "done"]_vars

\* a run of three epochs with training batches has reported its completion
C14_Witness ==
    /\ pc = "done"
    /\ EPOCHS = MaxEpochs
    /\ epoch = EPOCHS
    /\ step >= EPOCHS
    /\ Len(saves) = EPOCHS

\* the epoch-level records logged so far
EpochRecords == {i \in DOMAIN wandb_log : wandb_log[i].kind = "epoch"}

\* C15: a save_weights call that raises ends the run at that epoch boundary:
\* nothing happens after it, so the epoch-level record of that epoch and every
\* step, record and checkpoint of a later epoch are missing; the run is in an
\* epoch only after the checkpoints of all earlier epochs were written, and a
\* checkpoint write holds the training steps of the epochs up to its own only
C15_FailedSaveFatal ==
    /\ [][pc # "crashed"]_vars
    /\ [](pc = "crashed"
          => /\ Len(saves) = epoch
             /\ Cardinality(EpochRecords) = epoch
             /\ Len(reads) = (epoch + 1) * NumBatches(nTrainFiles))
    /\ [](/\ Len(saves) >= epoch
          /\ Cardinality(EpochRecords) <= Len(saves)
          /\ Len(reads) <= (Len(saves) + 1) * NumBatches(nTrainFiles))
    /\ [][pc = "save" => UNCHANGED <<weights, reads, step, epoch, wandb_log>>]_vars
    /\ [](\A i \in DOMAIN saves : saves[i].trained = (saves[i].epoch + 1) * NumBatches(nTrainFiles))

\* the save of the second epoch has raised after training batches: one
\* checkpoint and one epoch-level record exist, the run is over
C15_Witness ==
    /\ pc = "crashed"
    /\ epoch = 1
    /\ EPOCHS = MaxEpochs
    /\ Len(saves) = 1
    /\ Cardinality(EpochRecords) = 1
    /\ Len(reads) = 2 * NumBatches(nTrainFiles)
    /\ step > 0

C17_IterationOrder ==
    /\ [][(pc \in TrainingPcs /\ pc' # pc)
          => <<pc, pc'>> \in {<<"train_step", "train_metrics">>,
                              <<"train_metrics", "step_log">>,
                              <<"step_log", "step_inc">>,
                              <<"step_inc", "bn_assign">>,
                              <<"bn_assign", "lr_assign">>,
                              <<"lr_assign", "train_next">>}]_vars
    /\ [][(pc = "train_step" /\ pc' # pc)
          => /\ weights' = weights + 1
             /\ Len(reads') = Len(reads) + 1
             /\ UNCHANGED <<trainAccs, wandb_log, step, lr, bn_momentum>>]_vars
    /\ [][(pc = "train_metrics" /\ pc' # pc)
          => /\ train_acc'.count = train_acc.count + BATCH_SIZE
             /\ UNCHANGED <<weights, wandb_log, step, lr, bn_momentum>>]_vars
    /\ [][(pc = "step_log" /\ pc' # pc)
          => /\ Len(wandb_log') = Len(wandb_log) + 1
             /\ UNCHANGED <<weights, trainAccs, step, lr, bn_momentum>>]_vars
    /\ [][(pc = "step_inc" /\ pc' # pc)
          => /\ step' = step + 1
             /\ UNCHANGED <<weights, trainAccs, wandb_log, lr, bn_momentum>>]_vars
    /\ [][(pc = "bn_assign" /\ pc' # pc)
          => /\ bn_momentum' = get_bn_momentum(step)
             /\ UNCHANGED <<weights, trainAccs, wandb_log, step, lr>>]_vars
    /\ [][(pc = "lr_assign" /\ pc' # pc)
          => UNCHANGED <<weights, trainAccs, wandb_log, step, bn_momentum>>]_vars
    /\ [](\A i \in DOMAIN wandb_log :
            wandb_log[i].kind = "step"
            => /\ wandb_log[i].key + 1 \in DOMAIN reads
               /\ reads[wandb_log[i].key + 1].step = wandb_log[i].key
               /\ wandb_log[i].data = <<reads[wandb_log[i].key + 1].lr,
                                        reads[wandb_log[i].key + 1].bn>>)
    /\ [](pc = "step_inc"
          => /\ wandb_log[Len(wandb_log)].kind = "step"
             /\ wandb_log[Len(wandb_log)].key = step
             /\ wandb_log[Len(wandb_log)].data = <<LrOfStep(step), get_bn_momentum(step)>>)

\* the record of step 1 has just been logged in a run with a positive initial
\* learning rate: it carries the values of step 1, which differ from those
\* of step 0 and of step 2
C17_Witness ==
    /\ pc = "step_inc"
    /\ step = 1
    /\ LEARNING_RATE > 0
    /\ wandb_log[Len(wandb_log)].kind = "step"
    /\ wandb_log[Len(wandb_log)].key = 1
    /\ wandb_log[Len(wandb_log)].data = <<LrOfStep(1), get_bn_momentum(1)>>
    /\ LrOfStep(1) \notin {LrOfStep(0), LrOfStep(2)}
    /\ get_bn_momentum(1) \notin {get_bn_momentum(0), get_bn_momentum(2)}

\* C18: every epoch consumes exactly floor(T/B) training batches, the number
\* announced as 'Steps per epoch'; the global step in the checkpoint path of
\* the i-th epoch is i times that number, and once the loop is left the global
\* step is the number announced as 'Total steps'
C18_StepsAnnounced ==
    /\ pc \in ValidationPcs \cup {"save", "epoch_log"}
       => /\ train_it = StepsPerEpoch
          /\ epochTrain.seen = StepsPerEpoch * BATCH_SIZE
          /\ step = (epoch + 1) * StepsPerEpoch
    /\ \A i \in DOMAIN saves :
          /\ saves[i].path = CheckpointPath(INIT_TIMESTAMP, i * StepsPerEpoch)
          /\ saves[i].trained = i * StepsPerEpoch
    /\ pc \in {"print_done", "done"}
       => /\ step = TotalSteps
          /\ Len(reads) = TotalSteps
          /\ weights = TotalSteps

\* a run of three epochs on three files in batches of two, which leaves a
\* remainder in every epoch, has ended at step 3
C18_Witness ==
    /\ pc = "done"
    /\ nTrainFiles = 3 /\ BATCH_SIZE = 2 /\ EPOCHS = 3
    /\ step = 3
    /\ Len(saves) = 3
    /\ saves[3].path = CheckpointPath(INIT_TIMESTAMP, 3)

\* the step-level records logged so far
StepRecords == {i \in DOMAIN wandb_log : wandb_log[i].kind = "step"}

\* C19: the step keys handed to wandb.log never decrease; the step-level
\* records have pairwise distinct keys, one for each global step value from 0
\* on (0 .. total - 1 once the loop is left); the epoch-level record of an
\* epoch is keyed by the global step after the epoch's last increment, and
\* when the next epoch has a training batch its first step-level record
\* comes next and has the same key
C19_StepKeys ==
    /\ \A i \in DOMAIN wandb_log :
          i + 1 \in DOMAIN wandb_log => wandb_log[i].key <= wandb_log[i + 1].key
    /\ \A i, j \in StepRecords : i # j => wandb_log[i].key # wandb_log[j].key
    /\ {wandb_log[i].key : i \in StepRecords} = 0 .. (Cardinality(StepRecords) - 1)
    /\ pc \in {"print_done", "done"} => Cardinality(StepRecords) = TotalSteps
    /\ \A i \in EpochRecords :
          /\ wandb_log[i].key = Cardinality({j \in EpochRecords : j <= i}) * StepsPerEpoch
          /\ (i + 1 \in DOMAIN wandb_log /\ StepsPerEpoch > 0)
             => /\ wandb_log[i + 1].kind = "step"
                /\ wandb_log[i + 1].key = wandb_log[i].key
    /\ pc = "for_epoch" /\ epoch > 0
       => /\ wandb_log[Len(wandb_log)].kind = "epoch"
          /\ wandb_log[Len(wandb_log)].key = step

\* the first training batch of the second epoch has been logged with the key
\* of the first epoch's epoch-level record, two steps into the run
C19_Witness ==
    /\ Len(wandb_log) = 4
    /\ wandb_log[3].kind = "epoch"
    /\ wandb_log[4].kind = "step"
    /\ wandb_log[3].key = 2
    /\ wandb_log[4].key = 2

\* C20 as stated: in a run with a non-negative initial learning rate the
\* learning rate lies between 0 and the initial learning rate in every state,
\* and it is 0 only while the global step is 0
C20_Original ==
    LEARNING_RATE >= 0
    => /\ 0 <= lr /\ lr <= LEARNING_RATE
       /\ lr = 0 => step = 0

\* C20: in a run with a finite non-negative initial learning rate the learning
\* rate lies between 0 and the initial learning rate in every state; when the
\* initial learning rate is positive it is 0 exactly while the global step is
\* 0, except between step += 1 and lr.assign, where it still holds the value
\* of the step before
C20_LearningRateRange ==
    (LEARNING_RATE >= 0 /\ IsFinite(LEARNING_RATE))
    => /\ 0 <= lr /\ lr <= LEARNING_RATE
       /\ (LEARNING_RATE > 0 /\ pc \notin {"bn_assign", "lr_assign"})
          => (lr = 0 <=> step = 0)

\* the learning rate of step 3 of a run with a positive initial learning
\* rate has been assigned: it lies strictly between 0 and the initial one
C20_Witness ==
    /\ LEARNING_RATE > 0
    /\ step = 3
    /\ pc = "train_next"
    /\ lr = LrOfStep(3)
    /\ 0 < lr /\ lr < LEARNING_RATE

====
